---- MODULE Spec2Model ----
(***************************************************************************)
(* Annual report analyzer: the orchestrator AnnualReportRAG                *)
(* (app/rag_system.py) over a persisted Chroma collection, and the text    *)
(* functions of PDFProcessor (app/pdf_processor.py).                       *)
(*                                                                         *)
(* A text is a sequence of one-character strings.  An optional value is    *)
(* <<>> (None) or <<x>>.                                                   *)
(***************************************************************************)
EXTENDS Integers, Sequences, FiniteSets, TLC

VARIABLES
    disk,      \* the persist directory: does it exist, does it hold a collection, its documents
    orch,      \* per orchestrator: vectorstore, retriever, qa_chain
    pc,        \* per orchestrator: "idle", or "asking" between the two retrievals of ask_question
    pending,   \* per orchestrator: question and context of the ask in progress
    last,      \* outcome of the most recent completed call
    ever,      \* per orchestrator: has a load completed successfully on it
    runs,      \* the chunks of the last two successful load_and_index_documents calls on the directory
    answer,    \* text functions: first input text, as a sequence of tokens
    context,   \* text functions: second input text, as a sequence of tokens
    out        \* text functions: result of the last application

vars == <<disk, orch, pc, pending, last, ever, runs, answer, context, out>>
orchVars == <<disk, orch, pc, pending, last, ever, runs>>
textVars == <<answer, context, out>>

None == <<>>
Some(x) == <<x>>
Range(s) == {s[i] : i \in 1..Len(s)}
Min(S) == CHOOSE x \in S : \A y \in S : x <= y

(***************************************************************************)
(* Character classes of Python's re for the characters the inputs use.     *)
(***************************************************************************)
Digits == {"0", "1", "2", "3", "4", "5", "6", "7", "8", "9"}
Whitespace == {" ", "\t", "\n"}
Letters == {"a", "b", "c", "d", "e", "f", "g", "h", "i", "j", "k", "l", "m",
            "n", "o", "p", "q", "r", "s", "t", "u", "v", "w", "x", "y", "z",
            "A", "B", "C", "D", "E", "F", "G", "H", "I", "J", "K", "L", "M",
            "N", "O", "P", "Q", "R", "S", "T", "U", "V", "W", "X", "Y", "Z"}
WordChars == Letters \cup Digits \cup {"_"}

\* re.IGNORECASE on the letters of the unit words
Lower(c) ==
    CASE c = "M" -> "m" [] c = "I" -> "i" [] c = "L" -> "l" [] c = "O" -> "o"
      [] c = "N" -> "n" [] c = "B" -> "b" [] c = "T" -> "t" [] c = "R" -> "r"
      [] OTHER -> c

\* first index >= i of s whose character is outside S (Len(s)+1 if none): a greedy run
RunEnd(s, i, S) ==
    LET stops == {j \in i..Len(s) : s[j] \notin S}
    IN  IF stops = {} THEN Len(s) + 1 ELSE Min(stops)

\* does word w stand at index i of s, compared case-insensitively
WordAt(s, i, w) ==
    /\ i + Len(w) - 1 <= Len(s)
    /\ \A j \in 1..Len(w) : Lower(s[i + j - 1]) = w[j]

\* (?:million|billion|trillion)? at index i: the index after it
UnitEnd(s, i) ==
    IF WordAt(s, i, <<"m", "i", "l", "l", "i", "o", "n">>) THEN i + 7
    ELSE IF WordAt(s, i, <<"b", "i", "l", "l", "i", "o", "n">>) THEN i + 7
    ELSE IF WordAt(s, i, <<"t", "r", "i", "l", "l", "i", "o", "n">>) THEN i + 8
    ELSE i

\* \.? at index i: the index after it
DotEnd(s, i) == IF i <= Len(s) /\ s[i] = "." THEN i + 1 ELSE i

(***************************************************************************)
(* The three patterns of extract_financial_data.  Each operator gives the  *)
(* index after the match that starts at index i, or 0 when the pattern     *)
(* does not match there.  Every part after the first is optional or a      *)
(* run, so the greedy path is the one the backtracking matcher returns.    *)
(***************************************************************************)
\* \$[\d,]+\.?\d*\s*(?:million|billion|trillion)?
currency_pattern(s, i) ==
    IF s[i] # "$" THEN 0
    ELSE LET e1 == RunEnd(s, i + 1, Digits \cup {","})
         IN  IF e1 = i + 1 THEN 0
             ELSE UnitEnd(s, RunEnd(s, RunEnd(s, DotEnd(s, e1), Digits), Whitespace))

\* \d+\.?\d*\s*%
percentage_pattern(s, i) ==
    IF s[i] \notin Digits THEN 0
    ELSE LET e == RunEnd(s, RunEnd(s, DotEnd(s, RunEnd(s, i, Digits)), Digits), Whitespace)
         IN  IF e <= Len(s) /\ s[e] = "%" THEN e + 1 ELSE 0

\* (?:,\d{3})+ from index i, greedy: the index after the last group
RECURSIVE GroupsEnd(_, _)
GroupsEnd(s, i) ==
    IF /\ i + 3 <= Len(s)
       /\ s[i] = ","
       /\ \A j \in 1..3 : s[i + j] \in Digits
    THEN GroupsEnd(s, i + 4)
    ELSE i

\* (?:\.\d+)? at index i: the index after it
FractionEnd(s, i) ==
    IF i + 1 <= Len(s) /\ s[i] = "." /\ s[i + 1] \in Digits
    THEN RunEnd(s, i + 1, Digits)
    ELSE i

\* \d{1,3}(?:,\d{3})+(?:\.\d+)?
number_pattern(s, i) ==
    IF s[i] \notin Digits THEN 0
    ELSE LET d == RunEnd(s, i, Digits)
         IN  IF d - i > 3 \/ GroupsEnd(s, d) = d THEN 0
             ELSE FractionEnd(s, GroupsEnd(s, d))

MatchAt(pattern, s, i) ==
    CASE pattern = "currency" -> currency_pattern(s, i)
      [] pattern = "percentage" -> percentage_pattern(s, i)
      [] pattern = "number" -> number_pattern(s, i)

\* re.findall: leftmost non-overlapping matches from index i on, in text order
RECURSIVE findall(_, _, _)
findall(pattern, s, i) ==
    IF i > Len(s) THEN <<>>
    ELSE LET e == MatchAt(pattern, s, i)
         IN  IF e > 0
             THEN <<SubSeq(s, i, e - 1)>> \o findall(pattern, s, e)
             ELSE findall(pattern, s, i + 1)

extract_financial_data_reordered(text) ==
    findall("percentage", text, 1) \o findall("currency", text, 1)
        \o findall("number", text, 1)

extract_financial_data(text) ==
    findall("currency", text, 1) \o findall("percentage", text, 1)
        \o findall("number", text, 1)

\* the loop of validate_numerical_answer from figure i of the answer on
RECURSIVE ValidateFrom(_, _, _)
ValidateFrom(answer_figures, context_figures, i) ==
    IF i > Len(answer_figures) THEN TRUE
    ELSE IF answer_figures[i] \notin Range(context_figures) THEN FALSE
    ELSE ValidateFrom(answer_figures, context_figures, i + 1)

validate_numerical_answer_first(a, c) ==
    LET af == extract_financial_data(a)
        cf == extract_financial_data(c)
    IN  af = <<>> \/ af[1] \in Range(cf)

validate_numerical_answer(a, c) ==
    ValidateFrom(extract_financial_data(a), extract_financial_data(c), 1)

(***************************************************************************)
(* _clean_text                                                             *)
(***************************************************************************)
\* re.sub(r'\s+', ' ', text) from index i on
RECURSIVE CollapseWhitespace(_, _)
CollapseWhitespace(s, i) ==
    IF i > Len(s) THEN <<>>
    ELSE IF s[i] \in Whitespace
         THEN <<" ">> \o CollapseWhitespace(s, RunEnd(s, i, Whitespace))
         ELSE <<s[i]>> \o CollapseWhitespace(s, i + 1)

\* the characters re.sub(r'[^\w\s\$\%\.\,\-\(\)\:\;\/]', '', text) keeps
Kept(c) ==
    c \in WordChars \cup Whitespace
          \cup {"$", "%", ".", ",", "-", "(", ")", ":", ";", "/"}

\* str.strip()
Strip(s) ==
    LET inner == {j \in 1..Len(s) : s[j] \notin Whitespace}
    IN  IF inner = {} THEN <<>>
        ELSE SubSeq(s, Min(inner), CHOOSE j \in inner : \A k \in inner : k <= j)

_clean_text(text) == Strip(SelectSeq(CollapseWhitespace(text, 1), Kept))

(***************************************************************************)
(* The documents, the embedding and the Chroma collection.                 *)
(***************************************************************************)
Orchs == {"rag"}      \* the AnnualReportRAG object of this session
Paths == {"a.pdf", "b.pdf", "bad.pdf"}
Queries == {"q1", "q2"}

MaxPaths == 2      \* pdf_paths lists of up to this many paths
MaxDocs == 6       \* loads stop once the collection holds this many documents
MaxK == 3          \* get_similar_chunks is called with k in 1..MaxK
RetrieverK == 5

\* PyPDFLoader(pdf_path).load() raises on a file it cannot read
Readable(pdf_path) == pdf_path # "bad.pdf"

\* chunk_documents(load_pdf(pdf_path)): the passages of a readable file, as numbers
ChunksOf(pdf_path) ==
    CASE pdf_path = "a.pdf" -> <<11, 12>>
      [] pdf_path = "b.pdf" -> <<21, 22, 23>>
      [] OTHER -> <<>>

\* the embedding model: similarity of a passage to a query, the same at insert and at search
Similarity(query, passage) ==
    IF query = "q1" THEN passage ELSE (passage % 10) * 10 - passage \div 10

PathLists == UNION {[1..n -> Paths] : n \in 0..MaxPaths}

\* the index of the first unreadable path of the list, 0 when every path is readable
FirstUnreadable(pdf_paths) ==
    LET bad == {i \in 1..Len(pdf_paths) : ~Readable(pdf_paths[i])}
    IN  IF bad = {} THEN 0 ELSE Min(bad)

\* all_chunks after the loop has processed the first n paths
RECURSIVE AllChunks(_, _)
AllChunks(pdf_paths, n) ==
    IF n = 0 THEN <<>>
    ELSE AllChunks(pdf_paths, n - 1) \o ChunksOf(pdf_paths[n])

\* Chroma(persist_directory=...): opens the directory's collection, creating both if absent
ChromaOpen(d) == [d EXCEPT !.exists = TRUE, !.collection = TRUE]

\* Chroma.from_documents(documents, persist_directory=...): opens the collection of the
\* directory (get-or-create) and adds the documents under fresh ids
ChromaFromDocuments(d, documents) ==
    [ChromaOpen(d) EXCEPT !.docs = @ \o documents]

\* the k entries of docs most similar to the query, most similar first, of those not in taken
RECURSIVE TopK(_, _, _, _)
TopK(docs, query, k, taken) ==
    LET left == (1..Len(docs)) \ taken
    IN  IF k = 0 \/ left = {} THEN <<>>
        ELSE LET best == CHOOSE i \in left : \A j \in left :
                            \/ Similarity(query, docs[i]) > Similarity(query, docs[j])
                            \/ /\ Similarity(query, docs[i]) = Similarity(query, docs[j])
                               /\ i <= j
             IN  <<docs[best]>> \o TopK(docs, query, k - 1, taken \cup {best})

similarity_search_unranked(docs, query, k) ==
    SubSeq(docs, 1, IF k < Len(docs) THEN k ELSE Len(docs))

\* vectorstore.similarity_search(query, k) and the retriever's search over the collection
similarity_search(docs, query, k) == TopK(docs, query, k, {})

(***************************************************************************)
(* AnnualReportRAG                                                         *)
(***************************************************************************)
\* __init__: vectorstore, qa_chain and retriever are None
Unset == [vectorstore |-> None, qa_chain |-> None, retriever |-> None]

Objects == {"chroma1", "chroma2", "chroma3"}

\* a new object: an identity no field of the orchestrator refers to
FreshObject(rec) ==
    LET used == Range(rec.vectorstore)
                  \cup {rec.retriever[i].vectorstore : i \in 1..Len(rec.retriever)}
                  \cup {rec.qa_chain[i].context.vectorstore : i \in 1..Len(rec.qa_chain)}
    IN  CHOOSE x \in Objects \ used : TRUE

_create_qa_chain_once(rec) ==
    LET retriever == [vectorstore |-> rec.vectorstore[1],
                      search_type |-> "similarity", k |-> RetrieverK]
    IN  IF rec.retriever # None THEN rec
        ELSE [rec EXCEPT !.qa_chain = Some([context |-> retriever]),
                         !.retriever = Some(retriever)]

\* _create_qa_chain: a retriever over self.vectorstore, the chain over it, both stored
_create_qa_chain(rec) ==
    LET retriever == [vectorstore |-> rec.vectorstore[1],
                      search_type |-> "similarity", k |-> RetrieverK]
    IN  [rec EXCEPT !.qa_chain = Some([context |-> retriever]),
                    !.retriever = Some(retriever)]

\* self.vectorstore = <a new Chroma object over persist_directory>, then _create_qa_chain()
WithVectorstore(rec) ==
    _create_qa_chain([rec EXCEPT !.vectorstore = Some(FreshObject(rec))])

AfterRaise_reset(rec) == Unset

\* the fields after a load raised before its first assignment to self
AfterRaise(rec) == rec

\* runs after one more successful load_and_index_documents: the last two are kept
RecordRun(all_chunks) ==
    IF Len(runs) < 2 THEN Append(runs, all_chunks) ELSE <<runs[2], all_chunks>>

\* the outcome of a call, as the caller sees it
Call(o, op, result) ==
    [orch |-> o, op |-> op, result |-> result, question |-> "", k |-> 0,
     context |-> <<>>, sources |-> <<>>, retrieverCalls |-> 0, llmCalls |-> 0,
     chunks |-> <<>>, loading |-> "",
     before |-> IF o \in Orchs THEN orch[o] ELSE Unset, hadIndex |-> disk.collection]

NoCall == [orch |-> "", op |-> "init", result |-> "ok", question |-> "", k |-> 0,
           context |-> <<>>, sources |-> <<>>, retrieverCalls |-> 0, llmCalls |-> 0,
           chunks |-> <<>>, loading |-> "", before |-> Unset, hadIndex |-> FALSE]

NoPending == [question |-> "", context |-> <<>>]

\* the directory when the process starts: absent, present without a collection, or holding
\* the collection an earlier run persisted
InitialDisks ==
    {[exists |-> FALSE, collection |-> FALSE, docs |-> <<>>],
     [exists |-> TRUE, collection |-> FALSE, docs |-> <<>>],
     [exists |-> TRUE, collection |-> TRUE, docs |-> ChunksOf("a.pdf")]}

NoOut == [op |-> "none", figures |-> <<>>, supported |-> FALSE, cleaned |-> <<>>]

\* the orchestrator after __init__, over the directory d
InitOrch(d) ==
    /\ disk = d
    /\ orch = [o \in Orchs |-> Unset]
    /\ pc = [o \in Orchs |-> "idle"]
    /\ pending = [o \in Orchs |-> NoPending]
    /\ last = NoCall
    /\ ever = [o \in Orchs |-> FALSE]
    /\ runs = <<>>

InitText ==
    /\ answer = <<>>
    /\ context = <<>>
    /\ out = NoOut

Init == (\E d \in InitialDisks : InitOrch(d)) /\ InitText

\* load_and_index_documents: load_pdf raises on the first unreadable path
LoadAndIndexUnreadable(o, pdf_paths) ==
    LET bad == FirstUnreadable(pdf_paths)
    IN  /\ pc[o] = "idle"
        /\ bad > 0
        /\ orch' = [orch EXCEPT ![o] = AfterRaise(@)]
        /\ last' = [Call(o, "load_and_index", "UnreadableDocumentError") EXCEPT
                      !.chunks = AllChunks(pdf_paths, bad - 1),
                      !.loading = pdf_paths[bad]]
        /\ UNCHANGED <<disk, pc, pending, ever, runs>>

\* load_and_index_documents: every path is read, Chroma.from_documents opens the
\* collection and the embedding of the chunks raises
LoadAndIndexEmbeddingFails(o, pdf_paths) ==
    LET all_chunks == AllChunks(pdf_paths, Len(pdf_paths))
    IN  /\ pc[o] = "idle"
        /\ FirstUnreadable(pdf_paths) = 0
        /\ all_chunks # <<>>
        /\ disk' = ChromaOpen(disk)
        /\ orch' = [orch EXCEPT ![o] = AfterRaise(@)]
        /\ last' = [Call(o, "load_and_index", "ExternalServiceError") EXCEPT
                      !.chunks = all_chunks]
        /\ UNCHANGED <<pc, pending, ever, runs>>

\* load_and_index_documents: every path is read, the chunks are added to the collection
\* of persist_directory, and the chain is built over the new vector store
LoadAndIndexOk(o, pdf_paths) ==
    LET all_chunks == AllChunks(pdf_paths, Len(pdf_paths))
    IN  /\ pc[o] = "idle"
        /\ FirstUnreadable(pdf_paths) = 0
        /\ Len(disk.docs) + Len(all_chunks) <= MaxDocs
        /\ disk' = ChromaFromDocuments(disk, all_chunks)
        /\ orch' = [orch EXCEPT ![o] =
                      WithVectorstore(orch[o])]
        /\ last' = [Call(o, "load_and_index", "ok") EXCEPT !.chunks = all_chunks]
        /\ ever' = [ever EXCEPT ![o] = TRUE]
        /\ runs' = RecordRun(all_chunks)
        /\ UNCHANGED <<pc, pending>>

\* another session or process (each builds its own AnnualReportRAG over the same
\* persist_directory) completes load_and_index_documents
OtherSessionIndexes ==
    \E pdf_paths \in PathLists :
        LET all_chunks == AllChunks(pdf_paths, Len(pdf_paths))
        IN  /\ FirstUnreadable(pdf_paths) = 0
            /\ Len(disk.docs) + Len(all_chunks) <= MaxDocs
            /\ disk' = ChromaFromDocuments(disk, all_chunks)
            /\ last' = [Call("other", "load_and_index", "ok") EXCEPT !.chunks = all_chunks]
            /\ runs' = RecordRun(all_chunks)
            /\ UNCHANGED <<orch, pc, pending, ever>>
            /\ UNCHANGED textVars

load_and_index_documents ==
    \E o \in Orchs, pdf_paths \in PathLists :
        /\ \/ LoadAndIndexUnreadable(o, pdf_paths)
           \/ LoadAndIndexEmbeddingFails(o, pdf_paths)
           \/ LoadAndIndexOk(o, pdf_paths)
        /\ UNCHANGED textVars

\* load_existing_vectorstore: raises when persist_directory does not exist, else opens
\* the collection of the directory and builds the chain
LoadExisting(o) ==
    /\ pc[o] = "idle"
    /\ IF ~disk.exists
       THEN /\ last' = Call(o, "load_existing", "NotFoundError")
            /\ orch' = [orch EXCEPT ![o] = AfterRaise(@)]
            /\ UNCHANGED <<disk, ever>>
       ELSE /\ disk' = ChromaOpen(disk)
            /\ orch' = [orch EXCEPT ![o] = WithVectorstore(orch[o])]
            /\ last' = Call(o, "load_existing", "ok")
            /\ ever' = [ever EXCEPT ![o] = TRUE]
    /\ UNCHANGED <<pc, pending, runs>>

load_existing_vectorstore == \E o \in Orchs : LoadExisting(o) /\ UNCHANGED textVars

ask_question_empty_answer(o, question) ==
    [Call(o, "ask", "ok") EXCEPT !.question = question]

\* ask_question when self.qa_chain is None: raises, nothing is invoked
ask_question_uninitialized(o, question) ==
    [Call(o, "ask", "NotInitializedError") EXCEPT !.question = question]

\* ask_question up to the chain's answer: the guard, then qa_chain.invoke(question),
\* which runs the retriever for the context and the language model on the prompt
AskChain(o, question) ==
    /\ pc[o] = "idle"
    /\ IF orch[o].qa_chain = None
       THEN /\ last' = ask_question_uninitialized(o, question)
            /\ UNCHANGED <<pc, pending>>
       ELSE LET r == orch[o].qa_chain[1].context
                docs == similarity_search(disk.docs, question, r.k)
            IN  \/ /\ pc' = [pc EXCEPT ![o] = "asking"]
                   /\ pending' = [pending EXCEPT ![o] =
                                    [question |-> question, context |-> docs]]
                   /\ UNCHANGED last
                \/ /\ last' = [Call(o, "ask", "ExternalServiceError") EXCEPT
                                 !.question = question, !.k = r.k, !.context = docs,
                                 !.retrieverCalls = 1, !.llmCalls = 1]
                   /\ UNCHANGED <<pc, pending>>
    /\ UNCHANGED <<disk, orch, ever, runs>>

\* ask_question from the answer on: self.retriever.invoke(question) for the sources
AskSources(o) ==
    /\ pc[o] = "asking"
    /\ LET r == orch[o].retriever[1]
       IN  last' = [Call(o, "ask", "ok") EXCEPT
                      !.question = pending[o].question, !.k = r.k,
                      !.context = pending[o].context,
                      !.sources = similarity_search(disk.docs, pending[o].question, r.k),
                      !.retrieverCalls = 2, !.llmCalls = 1]
    /\ pc' = [pc EXCEPT ![o] = "idle"]
    /\ pending' = [pending EXCEPT ![o] = NoPending]
    /\ UNCHANGED <<disk, orch, ever, runs>>

ask_question ==
    \E o \in Orchs :
        /\ \/ \E question \in Queries : AskChain(o, question)
           \/ AskSources(o)
        /\ UNCHANGED textVars

\* get_similar_chunks(query, k)
get_similar_chunks ==
    \E o \in Orchs, query \in Queries, k \in 1..MaxK :
        /\ pc[o] = "idle"
        /\ last' = IF orch[o].vectorstore = None
                   THEN [Call(o, "similar", "NotInitializedError") EXCEPT
                           !.question = query, !.k = k]
                   ELSE [Call(o, "similar", "ok") EXCEPT
                           !.question = query, !.k = k,
                           !.sources = similarity_search(disk.docs, query, k),
                           !.retrieverCalls = 1]
        /\ UNCHANGED <<disk, orch, pc, pending, ever, runs>>
        /\ UNCHANGED textVars

Next ==
    \/ load_and_index_documents
    \/ load_existing_vectorstore
    \/ ask_question
    \/ get_similar_chunks
    \/ OtherSessionIndexes

Spec == Init /\ [][Next]_vars

(***************************************************************************)
(* The figure extractor and the validator applied to texts: a text is the  *)
(* concatenation of up to MaxAnswerTokens (MaxContextTokens) tokens, or    *)
(* one of the worked examples.                                             *)
(***************************************************************************)
MaxAnswerTokens == 3
MaxContextTokens == 1

AnswerTokens ==
    {<<"$">>, <<"1">>, <<",", "2", "3", "4">>, <<".">>, <<"%">>,
     <<" ", "M", "i", "l", "l", "i", "o", "n">>}

ContextTokens == {<<"$", "1">>, <<"$", "1", "%">>, <<",", "2", "3", "4">>}

ExampleText ==
    <<"R", "e", "v", "e", "n", "u", "e", " ", "w", "a", "s", " ", "$", "1", ",", "2",
      "3", "4", ".", "5", "6", " ", "m", "i", "l", "l", "i", "o", "n", " ", "a", "n",
      "d", " ", "m", "a", "r", "g", "i", "n", " ", "w", "a", "s", " ", "1", "2", ".",
      "5", "%", ".">>

SupportedAnswer ==
    <<"R", "e", "v", "e", "n", "u", "e", " ", "w", "a", "s", " ", "$", "1", "0", "0",
      " ", "m", "i", "l", "l", "i", "o", "n", ".">>

SupportedContext ==
    <<"T", "o", "t", "a", "l", " ", "r", "e", "v", "e", "n", "u", "e", ":", " ", "$",
      "1", "0", "0", " ", "m", "i", "l", "l", "i", "o", "n", " ", "i", "n", " ", "t",
      "h", "e", " ", "p", "e", "r", "i", "o", "d", ".">>

UnsupportedAnswer ==
    <<"R", "e", "v", "e", "n", "u", "e", " ", "w", "a", "s", " ", "$", "9", "9", "9",
      " ", "m", "i", "l", "l", "i", "o", "n", ".">>

UnsupportedContext ==
    <<"T", "o", "t", "a", "l", " ", "r", "e", "v", "e", "n", "u", "e", ":", " ", "$",
      "1", "0", "0", " ", "m", "i", "l", "l", "i", "o", "n", ".">>

Examples ==
    {<<ExampleText, <<>>>>,
     <<SupportedAnswer, SupportedContext>>,
     <<UnsupportedAnswer, UnsupportedContext>>}

\* the text a sequence of tokens spells
RECURSIVE Flatten(_)
Flatten(tokens) ==
    IF tokens = <<>> THEN <<>> ELSE Head(tokens) \o Flatten(Tail(tokens))

AppendAnswer ==
    \E tok \in AnswerTokens :
        /\ Len(answer) < MaxAnswerTokens
        /\ answer' = Append(answer, tok)
        /\ out' = NoOut
        /\ UNCHANGED context

AppendContext ==
    \E tok \in ContextTokens :
        /\ Len(context) < MaxContextTokens
        /\ context' = Append(context, tok)
        /\ out' = NoOut
        /\ UNCHANGED answer

UseExample ==
    \E ex \in Examples :
        /\ answer' = <<ex[1]>>
        /\ context' = <<ex[2]>>
        /\ out' = NoOut

\* figures = extract_financial_data(answer)
ExtractFigures ==
    /\ out' = [NoOut EXCEPT !.op = "extract",
                            !.figures = extract_financial_data(Flatten(answer))]
    /\ UNCHANGED <<answer, context>>

\* supported = validate_numerical_answer(answer, context)
ValidateAnswer ==
    /\ out' = [NoOut EXCEPT !.op = "validate",
                 !.supported = validate_numerical_answer(Flatten(answer), Flatten(context))]
    /\ UNCHANGED <<answer, context>>

NextFigures ==
    \/ AppendAnswer /\ UNCHANGED orchVars
    \/ AppendContext /\ UNCHANGED orchVars
    \/ UseExample /\ UNCHANGED orchVars
    \/ ExtractFigures /\ UNCHANGED orchVars
    \/ ValidateAnswer /\ UNCHANGED orchVars

InitTextOnly ==
    /\ InitOrch([exists |-> FALSE, collection |-> FALSE, docs |-> <<>>])
    /\ InitText

SpecFigures == InitTextOnly /\ [][NextFigures]_vars

(***************************************************************************)
(* _clean_text applied to page texts of up to MaxPageLen characters        *)
(***************************************************************************)
MaxPageLen == 5

PageChars == {<<"a">>, <<" ">>, <<"\n">>, <<"#">>}

AppendPageChar ==
    \E c \in PageChars :
        /\ Len(answer) < MaxPageLen
        /\ answer' = Append(answer, c)
        /\ out' = NoOut
        /\ UNCHANGED context

\* doc.page_content = self._clean_text(doc.page_content)
CleanPage ==
    /\ out' = [NoOut EXCEPT !.op = "clean", !.cleaned = _clean_text(Flatten(answer))]
    /\ UNCHANGED <<answer, context>>

NextClean ==
    \/ AppendPageChar /\ UNCHANGED orchVars
    \/ CleanPage /\ UNCHANGED orchVars

SpecClean == InitTextOnly /\ [][NextClean]_vars

(***************************************************************************)
(* Properties                                                              *)
(***************************************************************************)

\* C1: on an orchestrator on which no load has ever completed, the fields are unset and
\* every ask fails with the not-initialized error, runs neither the retriever nor the
\* language model, and leaves the fields as they were (unset).
C1_AskBeforeLoadFails ==
    \A o \in Orchs :
        ~ever[o] =>
            /\ orch[o] = Unset
            /\ pc[o] = "idle"
            /\ (last.op = "ask" /\ last.orch = o) =>
                   /\ last.result = "NotInitializedError"
                   /\ last.retrieverCalls = 0
                   /\ last.llmCalls = 0
                   /\ last.before = Unset

\* an ask has just failed on a never-loaded orchestrator although the directory holds an
\* indexed collection
C1_AskedBeforeLoad ==
    /\ last.op = "ask"
    /\ ~ever[last.orch]
    /\ disk.collection
    /\ disk.docs # <<>>

\* C2: between calls, whatever calls were made and however they ended, the vector store
\* is set iff the retriever is set iff the chain is set, the retriever is the one built
\* over the vector store now set, and the chain draws its context from that retriever.
C2_IndexedIffReady ==
    \A o \in Orchs :
        LET r == orch[o]
        IN  /\ (r.vectorstore = None) <=> (r.retriever = None)
            /\ (r.vectorstore = None) <=> (r.qa_chain = None)
            /\ r.vectorstore # None =>
                   /\ r.retriever[1].vectorstore = r.vectorstore[1]
                   /\ r.qa_chain[1].context = r.retriever[1]

\* a load has just succeeded on an orchestrator that was already loaded: the vector
\* store was replaced
C2_Reloaded ==
    /\ last.op \in {"load_and_index", "load_existing"}
    /\ last.orch \in Orchs
    /\ last.result = "ok"
    /\ last.before.vectorstore # None
    /\ orch[last.orch].vectorstore # last.before.vectorstore

\* C3: once a load has succeeded on an orchestrator, the chain and the retriever stay
\* set whatever is called afterwards, and no ask on it fails with the not-initialized
\* error.
C3_NoWayBackToUninitialized ==
    \A o \in Orchs :
        ever[o] =>
            /\ orch[o].qa_chain # None
            /\ orch[o].retriever # None
            /\ ~(last.op = "ask" /\ last.orch = o /\ last.result = "NotInitializedError")

\* a load has just failed on an orchestrator that was loaded before
C3_FailedLoadAfterLoad ==
    /\ last.op = "load_and_index"
    /\ last.orch \in Orchs
    /\ last.result \in {"UnreadableDocumentError", "ExternalServiceError"}
    /\ ever[last.orch]

\* C4: after two successive successful load_and_index_documents calls on the directory,
\* with passages A and then B (neither empty), the index holds exactly the passages of
\* B and none that only A added.
C4_LastWriterWins ==
    (Len(runs) = 2 /\ runs[1] # <<>> /\ runs[2] # <<>>) =>
        /\ Range(disk.docs) = Range(runs[2])
        /\ (Range(runs[1]) \ Range(runs[2])) \cap Range(disk.docs) = {}

\* C5: when a source of a bulk load cannot be read, the failing source is the one
\* reported and the passages of the sources processed before it are in the index.
C5_PartialSuccess ==
    (last.op = "load_and_index" /\ last.result = "UnreadableDocumentError") =>
        /\ ~Readable(last.loading)
        /\ Range(last.chunks) \subseteq Range(disk.docs)

\* C6: load_existing_vectorstore on a location without a persisted index fails with the
\* not-found error, leaves the fields as they were and creates no index there.
C6_NotFoundWithoutIndex ==
    (last.op = "load_existing" /\ ~last.hadIndex) =>
        /\ last.result = "NotFoundError"
        /\ orch[last.orch] = last.before
        /\ ~disk.collection

\* the number of entries of s equal to x
Count(s, x) == Cardinality({i \in 1..Len(s) : s[i] = x})

\* a retrieval result r for query over docs with limit k: min(k, n) passages, each an
\* entry of docs (no entry used twice), most similar first
IsRetrieval(r, docs, query, k) ==
    /\ Len(r) = IF k < Len(docs) THEN k ELSE Len(docs)
    /\ \A i \in 1..Len(r) : Count(r, r[i]) <= Count(docs, r[i])
    /\ \A i, j \in 1..Len(r) :
           i < j => Similarity(query, r[i]) >= Similarity(query, r[j])

\* C9: a retrieval over an index of n passages with limit k returns min(k, n) passages
\* of that index, most similar first: exactly 5 for the chain's retriever when n >= 5,
\* and the empty sequence, not an error, when the index is empty.
C9_RetrievalTopK ==
    /\ (last.op \in {"ask", "similar"} /\ last.result = "ok") =>
           /\ IsRetrieval(last.sources, disk.docs, last.question, last.k)
           /\ (last.op = "ask" /\ Len(disk.docs) >= RetrieverK) =>
                  Len(last.sources) = RetrieverK
           /\ disk.docs = <<>> => last.sources = <<>>
    /\ (last.op = "ask" /\ last.result = "ExternalServiceError") =>
           IsRetrieval(last.context, disk.docs, last.question, last.k)
    /\ (last.op = "similar" /\ last.before.vectorstore # None) => last.result = "ok"

\* an ask has just returned its sources from an index of more than 5 passages
C9_FiveOfMore ==
    /\ last.op = "ask"
    /\ last.result = "ok"
    /\ Len(disk.docs) > RetrieverK
    /\ Len(last.sources) = RetrieverK

\* C7: the validator answers true iff every figure extracted from the answer equals, as
\* a string, some figure extracted from the context; so it answers true when the answer
\* yields no figure, true on the supported example and false on the unsupported one.
C7_SupportedIffEveryFigureInContext ==
    out.op = "validate" =>
        LET af == extract_financial_data(Flatten(answer))
            cf == extract_financial_data(Flatten(context))
        IN  /\ out.supported <=>
                   \A i \in 1..Len(af) : \E j \in 1..Len(cf) : af[i] = cf[j]
            /\ af = <<>> => out.supported
            /\ (answer = <<SupportedAnswer>> /\ context = <<SupportedContext>>) =>
                   out.supported
            /\ (answer = <<UnsupportedAnswer>> /\ context = <<UnsupportedContext>>) =>
                   ~out.supported

\* the validator has accepted an answer that holds two or more figures
C7_TwoFiguresSupported ==
    /\ out.op = "validate"
    /\ out.supported
    /\ Len(extract_financial_data(Flatten(answer))) >= 2

\* the family of a figure, read off its shape: currency 1, percentage 2, grouped number 3
Family(f) == IF f[1] = "$" THEN 1 ELSE IF f[Len(f)] = "%" THEN 2 ELSE 3
IsCurrency(f) == Family(f) = 1
IsPercentage(f) == Family(f) = 2
IsNumber(f) == Family(f) = 3

\* the figures stand in the text from index from on, one after the other without overlap
RECURSIVE OccurInOrder(_, _, _)
OccurInOrder(figs, text, from) ==
    IF figs = <<>> THEN TRUE
    ELSE LET f == Head(figs)
             starts == {i \in from..(Len(text) - Len(f) + 1) :
                           SubSeq(text, i, i + Len(f) - 1) = f}
         IN  /\ starts # {}
             /\ OccurInOrder(Tail(figs), text, Min(starts) + Len(f))

FamiliesThenTextOrder(figs, text) ==
    /\ \A i, j \in 1..Len(figs) : i < j => Family(figs[i]) <= Family(figs[j])
    /\ OccurInOrder(SelectSeq(figs, IsCurrency), text, 1)
    /\ OccurInOrder(SelectSeq(figs, IsPercentage), text, 1)
    /\ OccurInOrder(SelectSeq(figs, IsNumber), text, 1)

ExampleCurrency == <<"$", "1", ",", "2", "3", "4", ".", "5", "6", " ", "m", "i", "l", "l", "i", "o", "n">>
ExamplePercentage == <<"1", "2", ".", "5", "%">>
ExampleNumber == <<"1", ",", "2", "3", "4", ".", "5", "6">>

\* C8 as amended: the result is the currency matches, then the percentage matches, then
\* the grouped-number matches, each family in text order, and for the example text it is
\* the three figures "$1,234.56 million", "12.5%", "1,234.56": the grouped-number
\* pattern also matches the digits inside the currency amount.
C8_FamiliesInOrderExampleThree ==
    out.op = "extract" =>
        /\ FamiliesThenTextOrder(out.figures, Flatten(answer))
        /\ answer = <<ExampleText>> =>
               out.figures = <<ExampleCurrency, ExamplePercentage, ExampleNumber>>

\* the figures of the example text have been extracted
C8_ExampleExtracted ==
    /\ out.op = "extract"
    /\ answer = <<ExampleText>>
    /\ Len(out.figures) = 3

\* C8 as stated: the families in order, and exactly two figures for the example text
C8_FamiliesInOrderExampleTwo ==
    out.op = "extract" =>
        /\ FamiliesThenTextOrder(out.figures, Flatten(answer))
        /\ answer = <<ExampleText>> =>
               out.figures = <<ExampleCurrency, ExamplePercentage>>

\* C10: the cleaned text never holds two adjacent whitespace characters.
C10_WhitespaceCollapsed ==
    out.op = "clean" =>
        \A i \in 1..(Len(out.cleaned) - 1) :
            ~(out.cleaned[i] \in Whitespace /\ out.cleaned[i + 1] \in Whitespace)

\* C11: the source_documents of a successful ask are the passages whose texts formed
\* the context of the prompt, in the same order, also when another load on the same
\* persisted index completes while the ask is in progress.
C11_SourcesAreTheContext ==
    (last.op = "ask" /\ last.result = "ok") => last.sources = last.context

====
